---- MODULE Spec2Model ----
(***************************************************************************)
(* Batch orchestrator of the email processor: the Cloud Function           *)
(* process_emails of main.py together with the collaborators it calls      *)
(* (authentication, notification setup, listing, reading, object-store     *)
(* upload, warehouse insert, mark-read), over a mailbox of unread          *)
(* messages and across repeated invocations.                               *)
(***************************************************************************)
EXTENDS Integers, Sequences, FiniteSets, TLC

\* ------------------------------------------------------------------ bounds
MaxMsgs == 3
MaxAtts == 2
\* the warehouse row count of one message is tracked up to this many rows
MaxRows == 2

\* max_results passed to list_unread_emails
MAX_RESULTS == 100

\* ------------------------------------------------------------- vocabulary
\* Python values are modelled as strings; a URI is a tuple, no URI the empty one.
None == "None"
PyTrue == "True"
PyFalse == "False"
Unbound == "unbound"
NoException == "none"
NoUri == <<>>
NoError == [kind |-> NoException, step |-> NoException]

\* Every exception the pipeline can raise is a subclass of Exception.
ExceptionKinds ==
    {"DecodeError", "ProviderError", "ValueError", "TypeError",
     "UnboundLocalError", "IndexError"}

\* What the warehouse client would answer to insert_rows_json.
WarehouseAnswers == {"ok", "row_errors", "raise"}

\* An attachment of a message in the mailbox either carries bytes or is empty.
AttKinds == {"data", "nodata"}

RECURSIVE SeqsUpTo(_, _)
SeqsUpTo(S, n) ==
    IF n = 0 THEN {<<>>}
    ELSE LET shorter == SeqsUpTo(S, n - 1)
         IN  shorter \cup {Append(s, x) : s \in {t \in shorter : Len(t) = n - 1}, x \in S}

Contents == SeqsUpTo(AttKinds, MaxAtts)
Mailboxes == SeqsUpTo(Contents, MaxMsgs)

VARIABLES
    mailbox,            \* message id (index) -> attachment kinds of that message
    unread,             \* ids carrying the UNREAD label
    bucket,             \* object store: set of blob names written
    rows,               \* warehouse: message id -> number of rows inserted
    healthy,            \* TRUE once every collaborator call succeeds
    healthyRun,         \* the current invocation started in a healthy environment
    warehouse,          \* message id -> what insert_rows_json answers for its row
                        \* during the current invocation
    pc,                 \* position inside process_emails
    emails,             \* result of list_unread_emails
    i,                  \* loop index of line 87
    extracted_email,    \* result of read_email for emails[i]
    j,                  \* index of the attachment being handled (line 98)
    gcs_upload_status,  \* local of line 106
    gcs_url,            \* local of line 106
    services,           \* clients returned by the three authenticate_* calls
    error,              \* exception caught at line 142: [kind, step], or NoError
    propagated,         \* an exception left process_emails
    calls,              \* collaborator calls of this invocation, in order
    handed,             \* records handed to store_emails_in_bigquery, in order
    arg,                \* argument a component function is applied to
    ret,                \* what the component function returned
    fn                  \* name of the component function applied, None before

vars == <<mailbox, unread, bucket, rows, healthy, healthyRun, warehouse,
          pc, emails, i, extracted_email, j, gcs_upload_status,
          gcs_url, services, error, propagated, calls, handed, arg, ret, fn>>

\* the variables of process_emails and of its environment
batch == <<mailbox, unread, bucket, rows, healthy, healthyRun, warehouse,
           pc, emails, i, extracted_email, j, gcs_upload_status,
           gcs_url, services, error, propagated, calls, handed>>
\* the variables of a component function applied on its own
component == <<arg, ret, fn>>

world == <<mailbox, unread, bucket, rows>>
locals == <<emails, i, extracted_email, j, gcs_upload_status, gcs_url>>

\* extracted_email before read_email has returned in this invocation.
NoEmail == [message_id |-> 0, attachments |-> <<>>, bound |-> FALSE]
NoServices == [gmail |-> Unbound, bigquery |-> Unbound, storage |-> Unbound]

\* A collaborator may fail only while the environment is not yet healthy.
Outcomes == IF healthy THEN {TRUE} ELSE BOOLEAN
WarehouseOutcomes == IF healthy THEN {"ok"} ELSE WarehouseAnswers

\* ------------------------------------------------------------- file names
\* the length limit of sanitize_filename
MAX_FILENAME_LENGTH == 200

UNSAFE_CHARS == {"<", ">", ":", "\"", "/", "\\", "|", "?", "*"}

\* what sanitize_filename returns for an empty or missing name
UNNAMED_ATTACHMENT ==
    <<"u", "n", "n", "a", "m", "e", "d", "_",
      "a", "t", "t", "a", "c", "h", "m", "e", "n", "t">>

\* filename.replace(char, "_") for every unsafe char
replace_unsafe(filename) ==
    [k \in 1..Len(filename) |->
        IF filename[k] \in UNSAFE_CHARS THEN "_" ELSE filename[k]]

\* str.rfind, 1-based; 0 when the character does not occur
rfind(s, c) ==
    LET at == {k \in 1..Len(s) : s[k] = c}
    IN  IF at = {} THEN 0 ELSE CHOOSE k \in at : \A m \in at : m <= k

\* os.path.splitext: the extension starts at the last dot, unless that dot
\* comes before the last separator or only dots precede it in the last
\* path component.
splitext(p) ==
    LET sepIndex == rfind(p, "/")
        dotIndex == rfind(p, ".")
    IN  IF dotIndex > sepIndex
           /\ \E k \in (sepIndex + 1)..(dotIndex - 1) : p[k] # "."
        THEN [name |-> SubSeq(p, 1, dotIndex - 1), ext |-> SubSeq(p, dotIndex, Len(p))]
        ELSE [name |-> p, ext |-> <<>>]

\* the slice s[:n]; a negative n counts from the end
SliceTo(s, n) ==
    IF n >= 0
    THEN SubSeq(s, 1, IF n < Len(s) THEN n ELSE Len(s))
    ELSE SubSeq(s, 1, IF Len(s) + n > 0 THEN Len(s) + n ELSE 0)

\* FileUtils.sanitize_filename (gmail_processor_refactored.py lines 162-178)
FileUtils_sanitize_filename(filename, max_length) ==
    IF filename = <<>> THEN UNNAMED_ATTACHMENT
    ELSE LET safe == replace_unsafe(filename)
             parts == splitext(safe)
         IN  IF Len(safe) > max_length
             THEN SliceTo(parts.name, max_length - Len(parts.ext)) \o parts.ext
             ELSE safe

\* sanitize_filename (file_utils.py lines 31-46)
sanitize_filename(filename) ==
    IF filename = <<>> THEN UNNAMED_ATTACHMENT
    ELSE LET safe == replace_unsafe(filename)
             parts == splitext(safe)
         IN  IF Len(safe) > MAX_FILENAME_LENGTH
             THEN SliceTo(parts.name, MAX_FILENAME_LENGTH - Len(parts.ext)) \o parts.ext
             ELSE safe

\* ------------------------------------------------------- pure components
\* authenticate_gmail / authenticate_bigquery / authenticate_gcs: every
\* exception is caught inside and turned into a None client.
authenticate(ok) == IF ok THEN "client" ELSE None

\* Faulty variant: only the mail client is checked.
ServicesInitialized_GmailOnly(s) == ~(s.gmail = None)

\* main.py line 63, negated: all three clients are truthy.
ServicesInitialized(s) ==
    ~(s.gmail = None \/ s.bigquery = None \/ s.storage = None)

\* list_unread_emails: the unread ids in provider order, at most max_results
\* of them; the empty list when the provider call fails.
RECURSIVE SortedSeq(_)
SortedSeq(S) ==
    IF S = {} THEN <<>>
    ELSE LET m == CHOOSE x \in S : \A y \in S : x <= y
         IN  <<m>> \o SortedSeq(S \ {m})

list_unread_emails(ok, max_results) ==
    IF ok
    THEN LET all == SortedSeq(unread)
         IN  SubSeq(all, 1, IF Len(all) < max_results THEN Len(all) ELSE max_results)
    ELSE <<>>

\* Faulty variant: the branch for an empty listing falls into the per-message body.
AfterListing_FallsThrough(listed) == "reading"

\* main.py lines 81-87: an empty listing ends the run, anything else enters
\* the per-message loop.
AfterListing(listed) == IF listed = <<>> THEN "done" ELSE "reading"

\* main.py line 87: the for loop visits emails[1..len].
LoopHasNext(k, listed) == k <= Len(listed)

\* The file name of the k-th attachment of a message: k letters.
AttachmentName(k) == [n \in 1..k |-> "a"]

\* read_email: the assembled record of one message, each attachment carrying
\* its raw bytes, or no bytes when the attachment is empty or its fetch failed.
read_email(id, content, fetched) ==
    [message_id |-> id,
     bound |-> TRUE,
     attachments |->
        [k \in 1..Len(content) |->
            [file_name |-> AttachmentName(k),
             file_data |-> IF content[k] = "data" /\ fetched[k] THEN "bytes" ELSE None,
             has_file_data |-> TRUE,
             gcs_url |-> NoUri]]]

\* main.py line 32: the bucket every attachment goes to
GCS_BUCKET_NAME == "bucket"

\* store_gcs.py line 57: the day of the batch run
Today == "d1"

\* Faulty variant: the key leaves out the message.
BlobName_WithoutMessage(curr_date, message_id, file_name) ==
    <<curr_date, sanitize_filename(file_name)>>

\* store_gcs.py lines 57-59: "{curr_date}/{message_id}/{safe_filename}"
BlobName(curr_date, message_id, file_name) ==
    <<curr_date, message_id, sanitize_filename(file_name)>>

\* upload_attachment_to_gcs (store_gcs.py lines 46-76): returns the qualified
\* blob name "gs://{bucket_name}/{blob_name}" on success and None on any
\* failure; it never raises. written is what upload_from_string stored.
upload_attachment_to_gcs(ok, bucket_name, curr_date, file_name, file_data, message_id) ==
    IF ok
    THEN [ret |-> <<"gs", bucket_name, BlobName(curr_date, message_id, file_name)>>,
          written |-> {<<BlobName(curr_date, message_id, file_name), file_data>>}]
    ELSE [ret |-> NoUri, written |-> {}]

\* blob.upload_from_string (store_gcs.py lines 66-69): the object stored under
\* a name replaces whatever the bucket held under that name.
upload_from_string(objects, written) ==
    {o \in objects : \A w \in written : o[1] # w[1]} \cup written

\* main.py line 106: "gcs_upload_status, gcs_url = <result>". The result is a
\* str of more than two characters (ValueError: too many values to unpack) or
\* None (TypeError: cannot unpack non-iterable NoneType).
Unpack(result) ==
    IF result = NoUri
    THEN [exc |-> "TypeError", status |-> Unbound, url |-> NoUri]
    ELSE [exc |-> "ValueError", status |-> Unbound, url |-> NoUri]

\* Python truthiness of the email handed to store_emails_in_bigquery.
Falsy(email) == email.bound /\ email.message_id = 0 /\ email.attachments = <<>>

\* Faulty variant: reports success without inserting anything.
store_emails_in_bigquery_ReturnsTrue(email, answer) ==
    [exc |-> NoException, ret |-> PyTrue, called |-> FALSE, inserted |-> FALSE]

\* store_emails_in_bigquery (store_bigquery.py lines 1-49) applied to the one
\* dict main.py passes: "for email in emails" walks the dict's keys, so line 17
\* indexes a str with "message_id" and raises TypeError before
\* insert_rows_json is reached; the function has no return value.
store_emails_in_bigquery(email, answer) ==
    IF Falsy(email)
    THEN [exc |-> NoException, ret |-> None, called |-> FALSE, inserted |-> FALSE]
    ELSE [exc |-> "TypeError", ret |-> None, called |-> FALSE, inserted |-> FALSE]

Truthy(v) == v \notin {None, PyFalse}

\* main.py lines 134-136. Reading gcs_upload_status before any upload of this
\* invocation assigned it raises UnboundLocalError.
MarkDecision(attachments, status, bq_upload_status) ==
    IF attachments = <<>> /\ Truthy(bq_upload_status) THEN "mark"
    ELSE IF attachments = <<>> THEN "skip"
    ELSE IF status = Unbound THEN "UnboundLocalError"
    ELSE IF Truthy(status) /\ Truthy(bq_upload_status) THEN "mark"
    ELSE "skip"

\* Faulty variant: the handler is "except ValueError".
Catches_OnlyValueError(kind) == kind = "ValueError"

\* main.py line 142: "except Exception" catches every exception kind.
Catches(kind) == kind \in ExceptionKinds

\* ------------------------------------------------------------ state machine
Init ==
    /\ mailbox \in Mailboxes
    /\ unread = DOMAIN mailbox
    /\ bucket = {}
    /\ rows = [m \in DOMAIN mailbox |-> 0]
    /\ healthy = FALSE
    /\ healthyRun = FALSE
    /\ warehouse = [m \in DOMAIN mailbox |-> "ok"]
    /\ pc = "idle"
    /\ emails = <<>>
    /\ i = 0
    /\ extracted_email = NoEmail
    /\ j = 0
    /\ gcs_upload_status = Unbound
    /\ gcs_url = NoUri
    /\ services = NoServices
    /\ error = NoError
    /\ propagated = FALSE
    /\ calls = <<>>
    /\ handed = <<>>
    /\ arg = None
    /\ ret = None
    /\ fn = None

\* An exception raised inside the try block of lines 48-141 ends the run: the
\* handler of line 142 logs it, anything it does not catch reaches the caller.
Raise(kind, step) ==
    /\ pc' = "done"
    /\ IF Catches(kind)
       THEN error' = [kind |-> kind, step |-> step] /\ propagated' = FALSE
       ELSE error' = NoError /\ propagated' = TRUE

Log(entry) == calls' = Append(calls, entry)

\* Lines 48-69: decode the event, build the three clients, give up when one
\* of them is missing. Every invocation starts with fresh locals.
Start ==
    /\ pc \in {"idle", "done"}
    /\ emails' = <<>>
    /\ i' = 0
    /\ extracted_email' = NoEmail
    /\ j' = 0
    /\ gcs_upload_status' = Unbound
    /\ gcs_url' = NoUri
    /\ calls' = <<>>
    /\ handed' = <<>>
    /\ healthyRun' = healthy
    /\ \E decoded \in Outcomes, g \in Outcomes, b \in Outcomes, s \in Outcomes :
         IF ~decoded
         THEN /\ services' = NoServices
              /\ warehouse' = [m \in DOMAIN mailbox |-> "ok"]
              /\ Raise("DecodeError", "decode")
         ELSE LET sv == [gmail |-> authenticate(g),
                         bigquery |-> authenticate(b),
                         storage |-> authenticate(s)]
              IN  /\ services' = sv
                  /\ IF ServicesInitialized(sv)
                     THEN warehouse' \in [DOMAIN mailbox -> WarehouseOutcomes]
                     ELSE warehouse' = [m \in DOMAIN mailbox |-> "ok"]
                  /\ error' = NoError
                  /\ propagated' = FALSE
                  /\ pc' = IF ServicesInitialized(sv) THEN "setup" ELSE "done"
    /\ UNCHANGED <<world, healthy>>
    /\ UNCHANGED component

\* Line 72: setup_gmail_push_notifications catches its own failures.
SetupNotifications ==
    /\ pc = "setup"
    /\ \E ok \in Outcomes :
         Log(<<"setup", 0, 0, IF ok THEN "ok" ELSE "fail">>)
    /\ pc' = "listing"
    /\ UNCHANGED <<world, healthy, healthyRun, warehouse, locals, services, error,
                   propagated, handed>>
    /\ UNCHANGED component

\* Lines 75-87: list the unread messages and enter the loop.
ListUnread ==
    /\ pc = "listing"
    /\ \E ok \in Outcomes :
         LET listed == list_unread_emails(ok, MAX_RESULTS)
         IN  /\ emails' = listed
             /\ Log(<<"list", 0, 0, IF ok THEN "ok" ELSE "fail">>)
             /\ pc' = AfterListing(listed)
    /\ i' = 1
    /\ UNCHANGED <<world, healthy, healthyRun, warehouse, extracted_email, j,
                   gcs_upload_status, gcs_url, services, error, propagated, handed>>
    /\ UNCHANGED component

\* Lines 87-96: read_email for emails[i]; a provider failure raises. Taking an
\* element past the end of the listing raises IndexError.
ReadEmail ==
    /\ pc = "reading"
    /\ IF ~LoopHasNext(i, emails)
       THEN /\ Raise("IndexError", "loop")
            /\ UNCHANGED <<extracted_email, j, calls>>
       ELSE LET id == emails[i]
                content == mailbox[id]
            IN  \E ok \in Outcomes, fetched \in [DOMAIN content -> Outcomes] :
                  IF ~ok
                  THEN /\ Log(<<"read_email", id, 0, "raise">>)
                       /\ Raise("ProviderError", "read_email")
                       /\ UNCHANGED <<extracted_email, j>>
                  ELSE /\ Log(<<"read_email", id, 0, "ok">>)
                       /\ extracted_email' = read_email(id, content, fetched)
                       /\ j' = 1
                       /\ pc' = IF Len(content) >= 1 THEN "uploading" ELSE "storing"
                       /\ UNCHANGED <<error, propagated>>
    /\ UNCHANGED <<world, healthy, healthyRun, warehouse, emails, i,
                   gcs_upload_status, gcs_url, services, handed>>
    /\ UNCHANGED component

\* Lines 98-125 for attachment j of the current message.
UploadAttachment ==
    /\ pc = "uploading"
    /\ LET id == emails[i]
           attachment == extracted_email.attachments[j]
           after == IF j + 1 <= Len(extracted_email.attachments)
                    THEN "uploading" ELSE "storing"
       IN  IF ~Truthy(attachment.file_data)
           THEN \* line 104: only a warning
                /\ Log(<<"no_data", id, j, "warning">>)
                /\ j' = j + 1
                /\ pc' = after
                /\ UNCHANGED <<bucket, extracted_email, gcs_upload_status, gcs_url,
                               error, propagated>>
           ELSE \E ok \in Outcomes :
                  LET up == upload_attachment_to_gcs(ok, GCS_BUCKET_NAME, Today,
                                                     attachment.file_name,
                                                     attachment.file_data, id)
                      u == Unpack(up.ret)
                  IN  /\ bucket' = upload_from_string(bucket, up.written)
                      /\ Log(<<"upload", id, j, IF ok THEN "ok" ELSE "fail">>)
                      /\ IF u.exc # NoException
                         THEN /\ Raise(u.exc, "upload")
                              /\ UNCHANGED <<extracted_email, j, gcs_upload_status,
                                             gcs_url>>
                         ELSE /\ gcs_upload_status' = u.status
                              /\ gcs_url' = u.url
                              /\ extracted_email' =
                                   [extracted_email EXCEPT !.attachments[j] =
                                      [@ EXCEPT !.file_data = None,
                                                !.has_file_data = FALSE,
                                                !.gcs_url =
                                                   IF Truthy(u.status) /\ u.url # NoUri
                                                   THEN u.url ELSE @]]
                              /\ j' = j + 1
                              /\ pc' = after
                              /\ UNCHANGED <<error, propagated>>
    /\ UNCHANGED <<mailbox, unread, rows, healthy, healthyRun, warehouse, emails, i,
                   services, handed>>
    /\ UNCHANGED component

\* Lines 127-140: store the record, decide, mark read, go to the next message.
StoreEmail ==
    /\ pc = "storing"
    /\ \E markOk \in Outcomes :
         LET id == emails[i]
             answer == warehouse[id]
             s == store_emails_in_bigquery(extracted_email, answer)
             storeCall == <<"store", id, 0, IF s.exc # NoException THEN "raise" ELSE s.ret>>
             logged == IF s.called
                       THEN calls \o << <<"insert", id, 0, answer>>, storeCall >>
                       ELSE Append(calls, storeCall)
             d == MarkDecision(extracted_email.attachments, gcs_upload_status, s.ret)
             next == IF LoopHasNext(i + 1, emails) THEN "reading" ELSE "done"
         IN  /\ handed' = Append(handed, extracted_email)
             /\ rows' = IF s.inserted
                        THEN [rows EXCEPT ![id] = IF @ < MaxRows THEN @ + 1 ELSE @]
                        ELSE rows
             /\ IF s.exc # NoException
                THEN /\ calls' = logged
                     /\ Raise(s.exc, "store")
                     /\ UNCHANGED <<unread, i>>
                ELSE IF d = "UnboundLocalError"
                THEN /\ calls' = logged
                     /\ Raise("UnboundLocalError", "mark_decision")
                     /\ UNCHANGED <<unread, i>>
                ELSE IF d = "mark" /\ ~markOk
                THEN /\ calls' = Append(logged, <<"mark_read", id, 0, "raise">>)
                     /\ Raise("ProviderError", "mark_read")
                     /\ UNCHANGED <<unread, i>>
                ELSE /\ calls' = IF d = "mark"
                                 THEN Append(logged, <<"mark_read", id, 0, "ok">>)
                                 ELSE logged
                     /\ unread' = IF d = "mark" THEN unread \ {id} ELSE unread
                     /\ i' = i + 1
                     /\ pc' = next
                     /\ UNCHANGED <<error, propagated>>
    /\ UNCHANGED <<mailbox, bucket, healthy, healthyRun, warehouse, emails,
                   extracted_email, j, gcs_upload_status, gcs_url, services>>
    /\ UNCHANGED component

\* From some point on every collaborator call succeeds.
BecomeHealthy ==
    /\ ~healthy
    /\ pc \in {"idle", "done"}
    /\ healthy' = TRUE
    /\ UNCHANGED <<world, healthyRun, warehouse, pc, locals, services, error,
                   propagated, calls, handed>>
    /\ UNCHANGED component

Next ==
    \/ Start
    \/ SetupNotifications
    \/ ListUnread
    \/ ReadEmail
    \/ UploadAttachment
    \/ StoreEmail
    \/ BecomeHealthy

Spec == Init /\ [][Next]_vars

\* Invocations keep arriving and every started step of an invocation runs.
LiveSpec == Spec /\ WF_vars(Next)

\* ------------------------------------------------------------ properties
Has(entry) == \E n \in DOMAIN calls : calls[n] = entry

CalledFor(op, id) == \E n \in DOMAIN calls : calls[n][1] = op /\ calls[n][2] = id

Called(op) == \E n \in DOMAIN calls : calls[n][1] = op

Count(op, id) == Cardinality({n \in DOMAIN calls : calls[n][1] = op /\ calls[n][2] = id})

Listed == {emails[n] : n \in DOMAIN emails}

InsertSucceeded(id) == Has(<<"insert", id, 0, "ok">>)

\* every attachment of the message was either skipped for lack of data or
\* uploaded successfully in this run
AttachmentsFine(id) ==
    \A k \in DOMAIN mailbox[id] :
        Has(<<"no_data", id, k, "warning">>) \/ Has(<<"upload", id, k, "ok">>)

\* no collaborator outside the pipeline under study failed in this run
NoInjectedFailure ==
    /\ error.step \notin {"decode", "read_email", "mark_read"}
    /\ Has(<<"list", 0, 0, "ok">>)

C3_UploadFailureStillStored ==
    pc = "done" =>
        \A id \in Listed : \A k \in DOMAIN mailbox[id] :
            Has(<<"upload", id, k, "fail">>) =>
                /\ CalledFor("insert", id)
                /\ \E n \in DOMAIN handed :
                     /\ handed[n].message_id = id
                     /\ handed[n].attachments[k].gcs_url = NoUri
                     /\ ~handed[n].attachments[k].has_file_data
                /\ ~CalledFor("mark_read", id)

\* C4: a run over three listed messages without attachments, where the
\* warehouse reports row errors for exactly one of them and accepts the other
\* two, marks exactly the other two read and leaves the failing one unread.
C4_OnlyFailingMessageStaysUnread ==
    (/\ pc = "done"
     /\ NoInjectedFailure
     /\ Len(emails) = 3
     /\ \A id \in Listed : mailbox[id] = <<>>
     /\ Cardinality({id \in Listed : warehouse[id] = "row_errors"}) = 1
     /\ Cardinality({id \in Listed : warehouse[id] = "ok"}) = 2) =>
        /\ {id \in Listed : Has(<<"mark_read", id, 0, "ok">>)}
              = {id \in Listed : warehouse[id] = "ok"}
        /\ unread = {id \in Listed : warehouse[id] = "row_errors"}

\* C5: when a step of one message's pipeline raised (read_email, an upload,
\* the store or mark_email_read), the next listed message is still read.
C5_ErrorConfinedToMessage ==
    (/\ pc = "done"
     /\ error.step \in {"read_email", "upload", "store", "mark_read"}
     /\ i < Len(emails)) =>
        CalledFor("read_email", emails[i + 1])

\* C6: process_emails never propagates an exception to its caller, whichever
\* step failed: decoding, initialisation, setup, listing, reading, uploading,
\* storing or marking.
C6_NeverPropagates == propagated = FALSE

\* a run has ended in the handler of line 142 after an upload step raised
C6_Witness == pc = "done" /\ error.step = "upload" /\ Called("upload")

\* C7: a step that leaves one of the three clients uninitialised calls no
\* collaborator (setup, listing, read_email, upload, insert, mark-read) and
\* changes neither the mailbox, the object store nor the warehouse.
C7_InitFailureTouchesNothing ==
    [][(services'.gmail = None \/ services'.bigquery = None
            \/ services'.storage = None) =>
          (calls' = <<>> /\ world' = world)]_vars

\* a run has ended with the mail client built and the warehouse client missing
C7_Witness ==
    /\ pc = "done"
    /\ services.gmail = "client"
    /\ services.bigquery = None
    /\ calls = <<>>

\* C8: when the listing came back empty (also when the provider call failed),
\* the run makes no read_email, upload, insert or mark-read call and ends
\* without error.
C8_EmptyListingEndsQuietly ==
    (Called("list") /\ emails = <<>>) =>
        /\ ~Called("read_email")
        /\ ~Called("upload")
        /\ ~Called("store")
        /\ ~Called("insert")
        /\ ~Called("mark_read")
        /\ pc = "done"
        /\ error = NoError
        /\ propagated = FALSE

\* the provider call failed while unread messages exist: the listing is empty
C8_Witness ==
    /\ Has(<<"list", 0, 0, "fail">>)
    /\ unread # {}
    /\ emails = <<>>
    /\ pc = "done"

\* C9: the record of a message is written to the warehouse exactly once: never
\* twice, and once when a run in which every collaborator succeeds has read it.
C9_RecordWrittenExactlyOnce ==
    \A id \in DOMAIN mailbox :
        /\ rows[id] <= 1
        /\ (pc = "done" /\ healthyRun /\ Has(<<"read_email", id, 0, "ok">>)) =>
               rows[id] = 1

\* C10: once every collaborator call succeeds, repeated invocations eventually
\* leave no message unread.
C10_RetryEventuallyMarksAll == [](healthy => <>(unread = {}))

\* ================================================================ components
\* The functions of src/components/process_emails.py and the methods of
\* EmailParser in gmail_processor_refactored.py, each applied on its own to
\* an argument drawn from a bounded set.

\* children of one multipart part
MaxParts == 2
\* nesting depth of multipart parts
MaxDepth == 2

\* process_emails is not running while a component is applied on its own.
BatchIdle ==
    /\ mailbox = <<>>
    /\ unread = {}
    /\ bucket = {}
    /\ rows = <<>>
    /\ healthy = FALSE
    /\ healthyRun = FALSE
    /\ warehouse = <<>>
    /\ pc = "idle"
    /\ emails = <<>>
    /\ i = 0
    /\ extracted_email = NoEmail
    /\ j = 0
    /\ gcs_upload_status = Unbound
    /\ gcs_url = NoUri
    /\ services = NoServices
    /\ error = NoError
    /\ propagated = FALSE
    /\ calls = <<>>
    /\ handed = <<>>

\* a component function returns value for the argument
Apply(name, value) ==
    /\ fn' = name
    /\ ret' = value
    /\ UNCHANGED <<arg, batch>>

\* ------------------------------------------------------------------- text
\* A str is a sequence of one-character strings.
Whitespace == {" "}

RECURSIVE lstrip(_)
lstrip(s) == IF s # <<>> /\ Head(s) \in Whitespace THEN lstrip(Tail(s)) ELSE s

RECURSIVE rstrip(_)
rstrip(s) ==
    IF s # <<>> /\ s[Len(s)] \in Whitespace
    THEN rstrip(SubSeq(s, 1, Len(s) - 1))
    ELSE s

\* str.strip()
strip(s) == rstrip(lstrip(s))

\* Last position of the shortest match of "<[^<]+?>" that starts at p, or 0:
\* "<", then at least one character other than "<", then ">".
TagEnd(s, p) ==
    LET ends == {q \in (p + 2)..Len(s) :
                    s[q] = ">" /\ \A r \in (p + 1)..(q - 1) : s[r] # "<"}
    IN  IF s[p] = "<" /\ ends # {}
        THEN CHOOSE q \in ends : \A r \in ends : q <= r
        ELSE 0

RECURSIVE SubFrom(_, _)
SubFrom(s, p) ==
    IF p > Len(s) THEN <<>>
    ELSE IF TagEnd(s, p) # 0 THEN SubFrom(s, TagEnd(s, p) + 1)
    ELSE <<s[p]>> \o SubFrom(s, p + 1)

\* re.sub("<[^<]+?>", "", html_text)
strip_html_tags(html_text) == SubFrom(html_text, 1)

\* "data" of a part body: the base64 encoding of a text, or no key at all.
NoData == << >>
urlsafe_b64encode(text) == <<"b64", text>>
urlsafe_b64decode(data) == data[2]

\* --------------------------------------------------------------- part trees
\* A MIME part as the mail API returns it. multipart says whether the part
\* has a "parts" key; attachmentId "" stands for a body without that key.
Part(mimeType, filename, data, attachmentId) ==
    [mimeType |-> mimeType, filename |-> filename, data |-> data,
     attachmentId |-> attachmentId, multipart |-> FALSE, parts |-> <<>>]

Multipart(header, children) ==
    [header EXCEPT !.multipart = TRUE, !.parts = children]

RECURSIVE PartTrees(_, _, _)
PartTrees(leaves, headers, depth) ==
    IF depth = 0 THEN leaves
    ELSE leaves \cup
         {Multipart(h, c) : h \in headers,
                            c \in SeqsUpTo(PartTrees(leaves, headers, depth - 1), MaxParts)}

\* ---------------------------------------------------------- body extraction
\* Loop of process_emails.py lines 18-31 from part k on, body being the text
\* built so far. Only the parts directly under the payload are visited.
RECURSIVE extract_email_body_loop(_, _, _)
extract_email_body_loop(parts, k, body) ==
    IF k > Len(parts) THEN body
    ELSE LET part == parts[k]
             next == IF part.mimeType = "text/plain"
                     THEN IF part.data # NoData
                          THEN body \o urlsafe_b64decode(part.data)
                          ELSE body
                     ELSE IF part.mimeType = "text/html" /\ body = <<>>
                     THEN IF part.data # NoData
                          THEN strip_html_tags(urlsafe_b64decode(part.data))
                          ELSE body
                     ELSE body
         IN  extract_email_body_loop(parts, k + 1, next)

\* extract_email_body (process_emails.py lines 12-38)
extract_email_body(payload) ==
    strip(IF payload.multipart
          THEN extract_email_body_loop(payload.parts, 1, <<>>)
          ELSE IF payload.mimeType = "text/plain" /\ payload.data # NoData
               THEN urlsafe_b64decode(payload.data)
               ELSE <<>>)

\* EmailParser._is_text_part (gmail_processor_refactored.py lines 318-322)
is_text_part(part) ==
    /\ part.mimeType \in {"text/plain", "text/html"}
    /\ part.filename = <<>>
    /\ part.data # NoData

\* EmailParser._decode_part_data (lines 324-330)
decode_part_data(part) == urlsafe_b64decode(part.data)

\* process_parts_for_body (gmail_processor_refactored.py lines 296-307) from
\* part k on, body being the nonlocal text built so far.
RECURSIVE process_parts_for_body(_, _, _)
process_parts_for_body(parts, k, body) ==
    IF k > Len(parts) THEN body
    ELSE LET part == parts[k]
             next == IF part.multipart
                     THEN process_parts_for_body(part.parts, 1, body)
                     ELSE IF is_text_part(part) /\ decode_part_data(part) # <<>>
                     THEN IF part.mimeType = "text/plain"
                          THEN body \o decode_part_data(part)
                          ELSE IF body = <<>>
                               THEN strip_html_tags(decode_part_data(part))
                               ELSE body
                     ELSE body
         IN  process_parts_for_body(parts, k + 1, next)

\* EmailParser._extract_email_body (gmail_processor_refactored.py lines 292-316)
EmailParser_extract_email_body(payload) ==
    strip(IF payload.multipart
          THEN process_parts_for_body(payload.parts, 1, <<>>)
          ELSE IF is_text_part(payload) /\ decode_part_data(payload) # <<>>
               THEN decode_part_data(payload)
               ELSE <<>>)

\* Texts a body part may carry: plain words, markup, surrounding blanks.
BodyTexts == {<<"x">>, <<"<", "b", ">", "y", " ">>}

BodyLeaves ==
    {Part(m, f, d, "") :
        m \in {"text/plain", "text/html", "application/pdf"},
        f \in {<<>>, <<"f">>},
        d \in {NoData} \cup {urlsafe_b64encode(t) : t \in BodyTexts}}

BodyHeaders == {Part("multipart/mixed", <<>>, NoData, "")}

BodyPayloads == PartTrees(BodyLeaves, BodyHeaders, MaxDepth)

BodyInit ==
    /\ BatchIdle
    /\ arg \in BodyPayloads
    /\ ret = None
    /\ fn = None

ExtractEmailBody ==
    /\ fn = None
    /\ Apply("extract_email_body", extract_email_body(arg))

ParserExtractEmailBody ==
    /\ fn = None
    /\ Apply("EmailParser._extract_email_body", EmailParser_extract_email_body(arg))

BodyNext ==
    \/ ExtractEmailBody
    \/ ParserExtractEmailBody

BodySpec == BodyInit /\ [][BodyNext]_vars

\* a part that carries body text: a leaf of a text type with data and no filename
IsBodyPart(part, mimeType) ==
    /\ ~part.multipart
    /\ part.mimeType = mimeType
    /\ part.filename = <<>>
    /\ part.data # NoData

\* the decoded texts of the text/plain parts of a list, in order
RECURSIVE PlainTextOf(_)
PlainTextOf(parts) ==
    IF parts = <<>> THEN <<>>
    ELSE (IF IsBodyPart(Head(parts), "text/plain")
          THEN urlsafe_b64decode(Head(parts).data) ELSE <<>>)
         \o PlainTextOf(Tail(parts))

\* C11: for a multipart message whose parts are text/plain and text/html body
\* parts, at least one of each, in either order, the extracted body is the
\* trimmed concatenation of the plain texts only.
C11_PlainTextOnly ==
    (/\ fn \in {"extract_email_body", "EmailParser._extract_email_body"}
     /\ arg.multipart
     /\ \A k \in DOMAIN arg.parts :
           IsBodyPart(arg.parts[k], "text/plain") \/ IsBodyPart(arg.parts[k], "text/html")
     /\ \E k \in DOMAIN arg.parts : IsBodyPart(arg.parts[k], "text/plain")
     /\ \E k \in DOMAIN arg.parts : IsBodyPart(arg.parts[k], "text/html")) =>
        ret = strip(PlainTextOf(arg.parts))

\* C12: for a message whose only body content is one text/html part, as the
\* root part itself or as the only child of a multipart root, the extracted
\* body is that HTML with the tags removed and trimmed.
C12_HtmlOnlyIsStripped ==
    LET html == IF arg.multipart THEN arg.parts[1] ELSE arg
    IN  (/\ fn \in {"extract_email_body", "EmailParser._extract_email_body"}
         /\ (arg.multipart => Len(arg.parts) = 1)
         /\ IsBodyPart(html, "text/html")) =>
            ret = strip(strip_html_tags(urlsafe_b64decode(html.data)))

\* ---------------------------------------------------- attachment extraction
\* What the mail provider answers to attachments().get: the attachment
\* "lost" cannot be fetched, any other id yields two bytes.
FetchRaises(attachment_id) == attachment_id = "lost"
FetchedBytes(attachment_id) == <<1, 2>>

\* upload_attachment_to_gcs declares six positional parameters
\* (store_gcs.py lines 46-53); the call of process_emails.py lines 75-77
\* passes five arguments.
UPLOAD_PARAMETERS == 6
UPLOAD_ARGUMENTS == 5

\* Faulty variant: every outcome is flagged as uploaded.
AttachmentInfo_AlwaysUploaded(filename, mime_type, size, url, attachment_id, err) ==
    [filename |-> filename, mime_type |-> mime_type, size |-> size,
     gcs_url |-> url, uploaded_successfully |-> TRUE,
     attachment_id |-> attachment_id, error |-> err]

\* the attachment outcome built at process_emails.py lines 79-86 and 90-98
AttachmentInfo(filename, mime_type, size, url, attachment_id, err) ==
    [filename |-> filename, mime_type |-> mime_type, size |-> size,
     gcs_url |-> url, uploaded_successfully |-> (url # NoUri),
     attachment_id |-> attachment_id, error |-> err]

\* Faulty variant: the except branch drops the error description.
FailedAttachment_NoError(filename, mime_type, attachment_id, err) ==
    [filename |-> filename, mime_type |-> mime_type, size |-> 0,
     gcs_url |-> NoUri, uploaded_successfully |-> FALSE,
     attachment_id |-> attachment_id, error |-> NoException]

\* the outcome of the except branch: nothing fetched, nothing uploaded
FailedAttachment(filename, mime_type, attachment_id, err) ==
    [filename |-> filename, mime_type |-> mime_type, size |-> 0,
     gcs_url |-> NoUri, uploaded_successfully |-> FALSE,
     attachment_id |-> attachment_id, error |-> err]

\* download_and_upload_attachment (process_emails.py lines 52-98); uploadOk
\* says whether the object store would accept the upload.
download_and_upload_attachment(message_id, attachment_id, filename, mime_type, uploadOk) ==
    IF FetchRaises(attachment_id)
    THEN FailedAttachment(filename, mime_type, attachment_id, "ProviderError")
    ELSE IF UPLOAD_ARGUMENTS # UPLOAD_PARAMETERS
    THEN FailedAttachment(filename, mime_type, attachment_id, "TypeError")
    ELSE AttachmentInfo(filename, mime_type, Len(FetchedBytes(attachment_id)),
                        upload_attachment_to_gcs(uploadOk, GCS_BUCKET_NAME, Today, filename,
                                                 FetchedBytes(attachment_id), message_id).ret,
                        attachment_id, NoException)

\* GCSManager.upload_attachment (gmail_processor_refactored.py lines 212-234)
GCSManager_upload_attachment(ok, filename, message_id) ==
    IF ok
    THEN <<"https", <<"attachments", message_id,
                      FileUtils_sanitize_filename(filename, MAX_FILENAME_LENGTH)>>>>
    ELSE NoUri

\* EmailParser._process_attachment (gmail_processor_refactored.py lines 373-408)
EmailParser_process_attachment(message_id, attachment_id, filename, mime_type, uploadOk) ==
    IF FetchRaises(attachment_id)
    THEN FailedAttachment(filename, mime_type, attachment_id, "ProviderError")
    ELSE AttachmentInfo(filename, mime_type, Len(FetchedBytes(attachment_id)),
                        GCSManager_upload_attachment(uploadOk, filename, message_id),
                        attachment_id, NoException)

\* process_emails.py line 111 and EmailParser._is_attachment_part
is_attachment_part(part) == part.filename # <<>> /\ part.attachmentId # ""

\* Faulty variant: nested multipart parts are not entered.
RECURSIVE process_parts_SkipsNested(_, _, _, _, _)
process_parts_SkipsNested(parts, k, attachments, message_id, up) ==
    IF k > Len(parts) THEN attachments
    ELSE process_parts_SkipsNested(
             parts, k + 1,
             IF ~parts[k].multipart /\ is_attachment_part(parts[k])
             THEN Append(attachments,
                         download_and_upload_attachment(
                             message_id, parts[k].attachmentId, parts[k].filename,
                             parts[k].mimeType, up[Len(attachments) + 1]))
             ELSE attachments,
             message_id, up)

\* process_parts (process_emails.py lines 107-121) from part k on, attachments
\* being the list built so far; up[n] is the object store's answer to the
\* n-th attachment.
RECURSIVE process_parts(_, _, _, _, _)
process_parts(parts, k, attachments, message_id, up) ==
    IF k > Len(parts) THEN attachments
    ELSE LET part == parts[k]
             next == IF part.multipart
                     THEN process_parts(part.parts, 1, attachments, message_id, up)
                     ELSE IF is_attachment_part(part)
                     THEN Append(attachments,
                                 download_and_upload_attachment(
                                     message_id, part.attachmentId, part.filename,
                                     part.mimeType, up[Len(attachments) + 1]))
                     ELSE attachments
         IN  process_parts(parts, k + 1, next, message_id, up)

\* extract_attachments (process_emails.py lines 101-139)
extract_attachments(message, message_id, up) ==
    LET payload == message.payload
    IN  IF payload.multipart
        THEN process_parts(payload.parts, 1, <<>>, message_id, up)
        ELSE IF is_attachment_part(payload)
        THEN <<download_and_upload_attachment(message_id, payload.attachmentId,
                                              payload.filename, payload.mimeType, up[1])>>
        ELSE <<>>

\* process_parts of EmailParser._extract_attachments (lines 340-349)
RECURSIVE EmailParser_process_parts(_, _, _, _, _)
EmailParser_process_parts(parts, k, attachments, message_id, up) ==
    IF k > Len(parts) THEN attachments
    ELSE LET part == parts[k]
             next == IF part.multipart
                     THEN EmailParser_process_parts(part.parts, 1, attachments, message_id, up)
                     ELSE IF is_attachment_part(part)
                     THEN Append(attachments,
                                 EmailParser_process_attachment(
                                     message_id, part.attachmentId, part.filename,
                                     part.mimeType, up[Len(attachments) + 1]))
                     ELSE attachments
         IN  EmailParser_process_parts(parts, k + 1, next, message_id, up)

\* EmailParser._extract_attachments (gmail_processor_refactored.py lines 336-366)
EmailParser_extract_attachments(message, message_id, up) ==
    LET payload == message.payload
    IN  IF payload.multipart
        THEN EmailParser_process_parts(payload.parts, 1, <<>>, message_id, up)
        ELSE IF is_attachment_part(payload)
        THEN <<EmailParser_process_attachment(message_id, payload.attachmentId,
                                              payload.filename, payload.mimeType, up[1])>>
        ELSE <<>>

AttachmentLeaves ==
    {Part("application/pdf", f, NoData, a) :
        f \in {<<>>, <<"f">>}, a \in {"", "a", "lost"}}

AttachmentHeaders ==
    {Part("multipart/mixed", f, NoData, a) : f \in {<<>>, <<"m">>}, a \in {"", "a"}}

AttachmentMessages ==
    {[id |-> "m1", payload |-> t] :
        t \in PartTrees(AttachmentLeaves, AttachmentHeaders, MaxDepth)}

\* the parts of a tree that are not multipart, in document order
RECURSIVE LeavesOf(_)
LeavesOf(part) ==
    IF ~part.multipart THEN <<part>>
    ELSE IF part.parts = <<>> THEN <<>>
    ELSE LeavesOf(Head(part.parts))
         \o LeavesOf([part EXCEPT !.parts = Tail(part.parts)])

\* the object store's answers to the uploads of one message
UploadAnswers(message) ==
    LET leaves == LeavesOf(message.payload)
    IN  [1..Cardinality({k \in DOMAIN leaves : is_attachment_part(leaves[k])}) -> BOOLEAN]

AttachmentInit ==
    /\ BatchIdle
    /\ arg \in AttachmentMessages
    /\ ret = None
    /\ fn = None

ExtractAttachments ==
    /\ fn = None
    /\ \E up \in UploadAnswers(arg) :
         Apply("extract_attachments", extract_attachments(arg, arg.id, up))

ParserExtractAttachments ==
    /\ fn = None
    /\ \E up \in UploadAnswers(arg) :
         Apply("EmailParser._extract_attachments",
               EmailParser_extract_attachments(arg, arg.id, up))

AttachmentNext ==
    \/ ExtractAttachments
    \/ ParserExtractAttachments

AttachmentSpec == AttachmentInit /\ [][AttachmentNext]_vars

ExtractedAttachments == fn \in {"extract_attachments", "EmailParser._extract_attachments"}

\* an attachment candidate: non-empty filename and an attachment id
Qualifies(part) == part.filename # <<>> /\ part.attachmentId # ""

\* the candidates among the leaves of the payload, in document order
QualifyingLeaves(payload) == SelectSeq(LeavesOf(payload), Qualifies)

\* every candidate of the tree, multipart parts included, in document order
RECURSIVE CandidatesOf(_)
RECURSIVE CandidatesIn(_)
CandidatesIn(parts) ==
    IF parts = <<>> THEN <<>>
    ELSE CandidatesOf(Head(parts)) \o CandidatesIn(Tail(parts))

CandidatesOf(part) ==
    (IF Qualifies(part) THEN <<part>> ELSE <<>>)
    \o (IF part.multipart THEN CandidatesIn(part.parts) ELSE <<>>)

PartKeys(parts) == [k \in DOMAIN parts |-> <<parts[k].filename, parts[k].attachmentId>>]
RecordKeys(records) ==
    [k \in DOMAIN records |-> <<records[k].filename, records[k].attachment_id>>]

\* C13: the extractor returns exactly one record per leaf part that has a
\* non-empty filename and an attachment id, at any depth, in document order.
C13_OneRecordPerQualifyingLeaf ==
    ExtractedAttachments => RecordKeys(ret) = PartKeys(QualifyingLeaves(arg.payload))

\* two different attachments were extracted, one of them from a part nested
\* two levels below the payload
C13_Witness ==
    /\ ExtractedAttachments
    /\ Len(ret) >= 2
    /\ ret[1].attachment_id # ret[2].attachment_id
    /\ \E k \in DOMAIN arg.payload.parts :
         /\ arg.payload.parts[k].multipart
         /\ \E m \in DOMAIN arg.payload.parts[k].parts :
              Qualifies(arg.payload.parts[k].parts[m])

\* C14: a part with a filename and an attachment id that also has child parts
\* is itself yielded, in addition to its qualifying descendants.
C14_MultipartCandidateYielded ==
    ExtractedAttachments => RecordKeys(ret) = PartKeys(CandidatesOf(arg.payload))

\* C15: an attachment that cannot be fetched is recorded at its position with
\* size 0, no storage URI, uploaded false and an error description, and every
\* attachment before and after it is recorded too.
C15_FetchFailureIsRecorded ==
    ExtractedAttachments =>
        LET leaves == QualifyingLeaves(arg.payload)
        IN  /\ Len(ret) = Len(leaves)
            /\ \A k \in DOMAIN leaves :
                 /\ ret[k].attachment_id = leaves[k].attachmentId
                 /\ FetchRaises(leaves[k].attachmentId) =>
                      /\ ret[k].size = 0
                      /\ ret[k].gcs_url = NoUri
                      /\ ret[k].uploaded_successfully = FALSE
                      /\ ret[k].error # NoException

\* the second of three attachments could not be fetched; the first and the
\* third were fetched and uploaded
C15_Witness ==
    /\ fn = "EmailParser._extract_attachments"
    /\ Len(ret) = 3
    /\ ret[2].attachment_id = "lost" /\ ret[2].error = "ProviderError"
    /\ ret[1].uploaded_successfully /\ ret[1].size = 2
    /\ ret[3].uploaded_successfully /\ ret[3].size = 2

\* C17: every attachment outcome, on the success, the upload-failure and the
\* fetch-failure path, has uploaded_successfully true exactly when its
\* gcs_url is not null.
C17_UploadedIffUri ==
    ExtractedAttachments =>
        \A k \in DOMAIN ret : ret[k].uploaded_successfully <=> ret[k].gcs_url # NoUri

\* one message produced an uploaded attachment, one whose upload failed and
\* one whose fetch failed
C17_Witness ==
    /\ fn = "EmailParser._extract_attachments"
    /\ \E k \in DOMAIN ret : ret[k].uploaded_successfully
    /\ \E k \in DOMAIN ret : ret[k].error = NoException /\ ret[k].gcs_url = NoUri
    /\ \E k \in DOMAIN ret : ret[k].error = "ProviderError"

\* ------------------------------------------------------------ email records
\* headers of one message
MaxHeaders == 2

\* json.dumps / json.loads of a list of attachment summaries
json_dumps(value) == <<"json", value>>
json_loads(text) == text[2]

\* {h["name"]: h["value"] for h in headers}.get(name, ""): a later header
\* with the same name replaces an earlier one.
RECURSIVE HeaderGet(_, _, _)
HeaderGet(headers, name, default) ==
    IF headers = <<>> THEN default
    ELSE LET last == headers[Len(headers)]
         IN  IF last.name = name THEN last.value
             ELSE HeaderGet(SubSeq(headers, 1, Len(headers) - 1), name, default)

\* one entry of attachment_summary (process_emails.py lines 158-164)
Summary(att) ==
    [filename |-> att.filename, mime_type |-> att.mime_type, size |-> att.size,
     gcs_url |-> att.gcs_url, uploaded_successfully |-> att.uploaded_successfully]

\* Faulty variant: the size is added only for uploaded attachments.
RECURSIVE TotalSize_UploadedOnly(_)
TotalSize_UploadedOnly(attachments) ==
    IF attachments = <<>> THEN 0
    ELSE (IF Head(attachments).uploaded_successfully THEN Head(attachments).size ELSE 0)
         + TotalSize_UploadedOnly(Tail(attachments))

\* total_attachment_size += att["size"] (process_emails.py line 166)
RECURSIVE TotalSize(_)
TotalSize(attachments) ==
    IF attachments = <<>> THEN 0
    ELSE Head(attachments).size + TotalSize(Tail(attachments))

\* successful_uploads += 1 (process_emails.py lines 167-168)
RECURSIVE SuccessfulUploads(_)
SuccessfulUploads(attachments) ==
    IF attachments = <<>> THEN 0
    ELSE (IF Head(attachments).uploaded_successfully THEN 1 ELSE 0)
         + SuccessfulUploads(Tail(attachments))

\* the record of process_emails.py lines 175-192; thread_id, label_ids,
\* snippet, message_size and the two timestamps are copied or generated
\* independently of the rest and are left out.
EmailRow(message, attachments, body_text) ==
    [message_id |-> message.id,
     subject |-> HeaderGet(message.headers, "Subject", ""),
     sender |-> HeaderGet(message.headers, "From", ""),
     recipient |-> HeaderGet(message.headers, "To", ""),
     date_received |-> HeaderGet(message.headers, "Date", ""),
     body_text |-> body_text,
     attachment_count |-> Len(attachments),
     attachment_summary |->
        json_dumps([k \in DOMAIN attachments |-> Summary(attachments[k])]),
     total_attachment_size |-> TotalSize(attachments),
     successful_uploads |-> SuccessfulUploads(attachments)]

\* parse_email (process_emails.py lines 142-192)
parse_email(message, up) ==
    EmailRow(message, extract_attachments(message, message.id, up),
             extract_email_body(message.payload))

\* EmailParser.parse_email (gmail_processor_refactored.py lines 272-290)
\* followed by the properties of EmailData (lines 74-97) as
\* BigQueryManager._email_to_bigquery_row reads them (lines 471-490)
EmailParser_parse_email(message, up) ==
    EmailRow(message, EmailParser_extract_attachments(message, message.id, up),
             EmailParser_extract_email_body(message.payload))

Headers ==
    {[name |-> n, value |-> v] : n \in {"Subject", "From", "To", "Date"},
                                  v \in {"v1", "v2"}}

ParseLeaves ==
    {Part("application/pdf", <<"f">>, NoData, a) : a \in {"a", "lost"}}
    \cup {Part("text/plain", <<>>, urlsafe_b64encode(<<"x">>), "")}

ParseMessages ==
    {[id |-> "m1", payload |-> t, headers |-> h] :
        t \in PartTrees(ParseLeaves, BodyHeaders, MaxDepth),
        h \in SeqsUpTo(Headers, MaxHeaders)}

ParseInit ==
    /\ BatchIdle
    /\ arg \in ParseMessages
    /\ ret = None
    /\ fn = None

ParseEmail ==
    /\ fn = None
    /\ \E up \in UploadAnswers(arg) : Apply("parse_email", parse_email(arg, up))

ParserParseEmail ==
    /\ fn = None
    /\ \E up \in UploadAnswers(arg) :
         Apply("EmailParser.parse_email", EmailParser_parse_email(arg, up))

ParseNext ==
    \/ ParseEmail
    \/ ParserParseEmail

ParseSpec == ParseInit /\ [][ParseNext]_vars

Parsed == fn \in {"parse_email", "EmailParser.parse_email"}

\* the attachment outcomes of an assembled record
OutcomesOf(record) == json_loads(record.attachment_summary)

RECURSIVE SumOver(_, _)
SumOver(f, S) ==
    IF S = {} THEN 0
    ELSE LET k == CHOOSE x \in S : TRUE IN f[k] + SumOver(f, S \ {k})

\* C16: in every assembled record attachment_count is the number of
\* attachment outcomes, successful_uploads the number of outcomes with
\* uploaded_successfully true, and total_attachment_size the sum of their sizes.
C16_CountsMatchOutcomes ==
    Parsed =>
        LET outcomes == OutcomesOf(ret)
        IN  /\ ret.attachment_count = Len(outcomes)
            /\ ret.successful_uploads
                 = Cardinality({k \in DOMAIN outcomes : outcomes[k].uploaded_successfully})
            /\ ret.total_attachment_size
                 = SumOver([k \in DOMAIN outcomes |-> outcomes[k].size], DOMAIN outcomes)

\* a record with an uploaded attachment, one whose upload failed and one that
\* could not be fetched
C16_Witness ==
    /\ Parsed
    /\ \E a, b, c \in DOMAIN OutcomesOf(ret) :
         /\ OutcomesOf(ret)[a].uploaded_successfully
         /\ ~OutcomesOf(ret)[b].uploaded_successfully /\ OutcomesOf(ret)[b].size = 2
         /\ OutcomesOf(ret)[c].size = 0
    /\ ret.attachment_count = 3
    /\ ret.successful_uploads = 1
    /\ ret.total_attachment_size = 4

\* ---------------------------------------------------------- object storage
\* C18: upload_attachment_to_gcs never raises and reports a null URI on any
\* failure, so that an attachment whose upload failed aborts nothing: when the
\* run has ended, no exception came out of the upload step, and the remaining
\* attachments of the same message were still handled.
C18_FailedUploadAbortsNothing ==
    pc = "done" =>
        \A id \in Listed : \A k \in DOMAIN mailbox[id] :
            Has(<<"upload", id, k, "fail">>) =>
                /\ error.step # "upload"
                /\ \A m \in (k + 1)..Len(mailbox[id]) :
                     \/ Has(<<"no_data", id, m, "warning">>)
                     \/ \E n \in DOMAIN calls :
                          calls[n][1] = "upload" /\ calls[n][2] = id /\ calls[n][3] = m

\* Uploads made one after the other into one bucket.
MaxUploads == 2

\* two raw names with one sanitized form, and a third name
UploadNames == {<<"a", "/", "b">>, <<"a", "_", "b">>, <<"c">>}

UploadRequests ==
    [message_id : {"m1", "m2"},
     file_name : UploadNames,
     file_data : {"x", "y"},
     curr_date : {"d1", "d2"}]

GcsInit ==
    /\ BatchIdle
    /\ arg \in SeqsUpTo(UploadRequests, MaxUploads)
    /\ ret = <<>>
    /\ fn = None

\* the next request of arg is uploaded; ret collects what each call returned
UploadToGcs ==
    /\ Len(ret) < Len(arg)
    /\ \E ok \in BOOLEAN :
          LET request == arg[Len(ret) + 1]
              up == upload_attachment_to_gcs(ok, GCS_BUCKET_NAME, request.curr_date,
                                             request.file_name, request.file_data,
                                             request.message_id)
          IN  /\ bucket' = upload_from_string(bucket, up.written)
              /\ ret' = Append(ret, up.ret)
    /\ fn' = "upload_attachment_to_gcs"
    /\ UNCHANGED <<arg, mailbox, unread, rows, healthy, healthyRun, warehouse, pc,
                   emails, i, extracted_email, j, gcs_upload_status, gcs_url,
                   services, error, propagated, calls, handed>>

GcsNext == UploadToGcs

GcsSpec == GcsInit /\ [][GcsNext]_vars

\* the last upload so far that returned the URI uri
LastUploadTo(uri) ==
    CHOOSE q \in DOMAIN ret : ret[q] = uri /\ \A r \in DOMAIN ret : ret[r] = uri => r <= q

\* C19: the storage key is {date}/{messageId}/{sanitizedFileName}. On one day,
\* the same file name on two different messages gives two different keys; two
\* attachments of one message whose sanitized names are identical give the
\* same key, both uploads report success with the same URI, and the object
\* under a key is the one written last.
C19_KeyIsDateMessageAndSanitizedName ==
    \A p \in DOMAIN ret : \A q \in DOMAIN ret :
        (p < q /\ ret[p] # NoUri /\ ret[q] # NoUri
               /\ arg[p].curr_date = arg[q].curr_date) =>
            /\ (arg[p].file_name = arg[q].file_name
                 /\ arg[p].message_id # arg[q].message_id) => ret[p][3] # ret[q][3]
            /\ (arg[p].message_id = arg[q].message_id
                 /\ sanitize_filename(arg[p].file_name)
                      = sanitize_filename(arg[q].file_name)) =>
                    /\ ret[p] = ret[q]
                    /\ ret[q][3] = <<arg[q].curr_date, arg[q].message_id,
                                     sanitize_filename(arg[q].file_name)>>
                    /\ {o \in bucket : o[1] = ret[q][3]}
                         = {<<ret[q][3], arg[LastUploadTo(ret[q])].file_data>>}

\* two attachments of one message with different raw names, one sanitized
\* form and different bytes were both uploaded successfully: one URI, and the
\* bucket holds the bytes of the second
C19_Witness ==
    /\ Len(ret) = 2
    /\ ret[1] # NoUri
    /\ ret[1] = ret[2]
    /\ arg[1].file_name # arg[2].file_name
    /\ arg[1].file_data = "x"
    /\ arg[2].file_data = "y"
    /\ bucket = {<<ret[2][3], "y">>}

\* ------------------------------------------------------ file name sanitizing
\* File names are made of up to MaxSegments runs of one character.
MaxSegments == 3

\* lengths of a run: short ones, and the ones around the length limit
RunLengths ==
    {1, 2, MAX_FILENAME_LENGTH - 1, MAX_FILENAME_LENGTH, MAX_FILENAME_LENGTH + 1}

\* a letter, the extension dot, and an unsafe character
RunChars == {"a", ".", "/"}

Run(c, n) == [k \in 1..n |-> c]

RECURSIVE Concat(_)
Concat(runs) == IF runs = <<>> THEN <<>> ELSE Head(runs) \o Concat(Tail(runs))

FileNames ==
    {Concat(runs) :
        runs \in SeqsUpTo({Run(c, n) : c \in RunChars, n \in RunLengths}, MaxSegments)}

SanitizeInit ==
    /\ BatchIdle
    /\ arg \in FileNames
    /\ ret = None
    /\ fn = None

\* the function applied once, and applied again to its own result
SanitizeFilename ==
    /\ fn = None
    /\ Apply("sanitize_filename",
             [once |-> sanitize_filename(arg),
              twice |-> sanitize_filename(sanitize_filename(arg))])

FileUtilsSanitizeFilename ==
    /\ fn = None
    /\ Apply("FileUtils.sanitize_filename",
             [once |-> FileUtils_sanitize_filename(arg, MAX_FILENAME_LENGTH),
              twice |-> FileUtils_sanitize_filename(
                            FileUtils_sanitize_filename(arg, MAX_FILENAME_LENGTH),
                            MAX_FILENAME_LENGTH)])

SanitizeNext == SanitizeFilename \/ FileUtilsSanitizeFilename

SanitizeSpec == SanitizeInit /\ [][SanitizeNext]_vars

\* C20: for every file name, sanitizing the sanitized name changes nothing,
\* and the sanitized name is no longer than the maximum length, also when the
\* extension after the last dot is itself longer than the maximum.
C20_IdempotentAndBounded ==
    fn # None =>
        /\ ret.twice = ret.once
        /\ Len(ret.once) <= MAX_FILENAME_LENGTH

\* ------------------------------------------------------------ header lookup
\* the value of the first header called name in the list, or default
RECURSIVE FirstOccurrence(_, _, _)
FirstOccurrence(headers, name, default) ==
    IF headers = <<>> THEN default
    ELSE IF Head(headers).name = name THEN Head(headers).value
    ELSE FirstOccurrence(Tail(headers), name, default)

\* C21: when the header list of a message holds the same name more than once
\* (Subject, From, To or Date), the assembled record carries the value of the
\* first occurrence.
C21_FirstOccurrenceWins ==
    Parsed =>
        /\ ret.subject = FirstOccurrence(arg.headers, "Subject", "")
        /\ ret.sender = FirstOccurrence(arg.headers, "From", "")
        /\ ret.recipient = FirstOccurrence(arg.headers, "To", "")
        /\ ret.date_received = FirstOccurrence(arg.headers, "Date", "")

\* ------------------------------------------------------------ warehouse rows
\* records handed to store_emails_in_bigquery in one call
MaxEmails == 2

\* store_bigquery.py line 24: body_text[:1000000]
BODY_TEXT_LIMIT == 1000000

\* one row of rows_to_insert (store_bigquery.py lines 16-33); the columns that
\* are copied unchanged next to message_id are left out
BigQueryRow(email) ==
    [message_id |-> email.message_id,
     body_text |-> IF email.body_text # <<>>
                   THEN SliceTo(email.body_text, BODY_TEXT_LIMIT) ELSE None,
     attachment_count |-> email.attachment_count,
     successful_uploads |-> email.successful_uploads]

\* store_emails_in_bigquery (store_bigquery.py lines 1-49) applied to a list
\* of records, or to None when given is false. A record without one of the
\* sixteen keys raises KeyError at lines 16-33; insert_rows_json may raise,
\* and nothing catches it; every path that ends normally returns None.
store_emails_in_bigquery_list(given, records, answer) ==
    IF ~given \/ records = <<>>
    THEN [exc |-> NoException, ret |-> None, called |-> FALSE, inserted |-> <<>>]
    ELSE IF \E k \in DOMAIN records : ~records[k].all_keys
    THEN [exc |-> "KeyError", ret |-> None, called |-> FALSE, inserted |-> <<>>]
    ELSE IF answer = "raise"
    THEN [exc |-> "ProviderError", ret |-> None, called |-> TRUE, inserted |-> <<>>]
    ELSE [exc |-> NoException, ret |-> None, called |-> TRUE,
          inserted |-> IF answer = "ok"
                       THEN [k \in DOMAIN records |-> BigQueryRow(records[k])]
                       ELSE <<>>]

\* the records a caller may hand over
StoredEmails ==
    [message_id : {"m1", "m2"},
     body_text : {<<>>, <<"x">>},
     attachment_count : {0, 1},
     successful_uploads : {0, 1},
     all_keys : BOOLEAN]

\* what main.py line 129 hands over: one record, not a list (held in arg as
\* a sequence of one element)
StoredDicts ==
    {[message_id |-> id, bound |-> TRUE, attachments |-> <<>>] : id \in 0..2}

StoreArguments ==
    {[shape |-> "list", emails |-> e, answer |-> a] :
        e \in SeqsUpTo(StoredEmails, MaxEmails), a \in WarehouseAnswers}
    \cup {[shape |-> "none", emails |-> <<>>, answer |-> a] : a \in WarehouseAnswers}
    \cup {[shape |-> "dict", emails |-> <<e>>, answer |-> a] :
        e \in StoredDicts, a \in WarehouseAnswers}

StoreInit ==
    /\ BatchIdle
    /\ arg \in StoreArguments
    /\ ret = None
    /\ fn = None

\* called with a list of records or with None
StoreEmailList ==
    /\ fn = None
    /\ arg.shape \in {"list", "none"}
    /\ Apply("store_emails_in_bigquery",
             store_emails_in_bigquery_list(arg.shape = "list", arg.emails, arg.answer))

\* called with one record, as main.py does
StoreEmailDict ==
    /\ fn = None
    /\ arg.shape = "dict"
    /\ Apply("store_emails_in_bigquery",
             [exc |-> store_emails_in_bigquery(arg.emails[1], arg.answer).exc,
              ret |-> store_emails_in_bigquery(arg.emails[1], arg.answer).ret,
              called |-> store_emails_in_bigquery(arg.emails[1], arg.answer).called,
              inserted |-> <<>>])

StoreNext == StoreEmailList \/ StoreEmailDict

StoreSpec == StoreInit /\ [][StoreNext]_vars

\* the call was given no email
NoEmailGiven == arg.shape = "none" \/ (arg.shape = "list" /\ arg.emails = <<>>)

\* C22: store_emails_in_bigquery never raises; it returns True exactly when
\* the insert was called and returned no errors; it returns False when given
\* no email (without calling the insert), when the insert returns row errors
\* and when the insert raises.
C22_StoreReportsInsertOutcome ==
    fn = "store_emails_in_bigquery" =>
        /\ ret.exc = NoException
        /\ ret.ret = PyTrue <=> (ret.called /\ arg.answer = "ok")
        /\ NoEmailGiven => (ret.ret = PyFalse /\ ~ret.called)
        /\ (ret.called /\ arg.answer # "ok") => ret.ret = PyFalse

\* -------------------------------------------------- the batch, step by step
\* an upload was attempted for attachment k of message id
UploadAttempted(id, k) ==
    \E n \in DOMAIN calls : calls[n][1] = "upload" /\ calls[n][2] = id /\ calls[n][3] = k

\* the record carries neither bytes next to a URI nor the bytes of an
\* attachment whose upload was attempted
NoBytesLeft(record) ==
    \A k \in DOMAIN record.attachments :
        LET att == record.attachments[k]
        IN  /\ ~(att.has_file_data /\ Truthy(att.file_data) /\ att.gcs_url # NoUri)
            /\ UploadAttempted(record.message_id, k) => ~att.has_file_data

PositionOf(id) == CHOOSE p \in DOMAIN emails : emails[p] = id

\* the steps of one message in the order main.py lines 94-137 takes them
StepRank(op) ==
    CASE op = "read_email" -> 1
      [] op \in {"no_data", "upload"} -> 2
      [] op = "insert" -> 3
      [] op = "store" -> 4
      [] op = "mark_read" -> 5
      [] OTHER -> 0

\* the logged steps of the run are in listing order, and within one message in
\* the order read, attachments in document order, insert, mark-read
StepsInOrder ==
    \A m \in DOMAIN calls : \A n \in DOMAIN calls :
        (m < n /\ StepRank(calls[m][1]) > 0 /\ StepRank(calls[n][1]) > 0) =>
            /\ PositionOf(calls[m][2]) <= PositionOf(calls[n][2])
            /\ calls[m][2] = calls[n][2] =>
                 /\ StepRank(calls[m][1]) <= StepRank(calls[n][1])
                 /\ StepRank(calls[m][1]) = StepRank(calls[n][1]) =>
                      calls[m][3] < calls[n][3]

MaxBefore == 1

\* gcs_upload_status after the attachment loop of lines 98-125: line 106
\* assigns it at every upload and nothing resets it between two messages
RECURSIVE StatusAfter(_, _)
StatusAfter(attachments, status) ==
    IF attachments = <<>> THEN status
    ELSE StatusAfter(Tail(attachments),
                     CASE Head(attachments) = "uploaded" -> PyTrue
                       [] Head(attachments) = "failed" -> PyFalse
                       [] OTHER -> status)

\* the decisions of lines 134-140 for the messages in turn; an
\* UnboundLocalError ends the batch
RECURSIVE DecisionsOf(_, _)
DecisionsOf(messages, status) ==
    IF messages = <<>> THEN <<>>
    ELSE LET m == Head(messages)
             after == StatusAfter(m.attachments, status)
             d == MarkDecision(m.attachments, after, m.bq_upload_status)
         IN  IF d = "UnboundLocalError" THEN <<d>>
             ELSE <<d>> \o DecisionsOf(Tail(messages), after)

LoopMessages ==
    [attachments : SeqsUpTo({"nodata", "uploaded", "failed"}, MaxAtts),
     bq_upload_status : {PyTrue, PyFalse, None}]

\* two batches that end with the same message
LoopInit ==
    /\ BatchIdle
    /\ arg \in [before1 : SeqsUpTo(LoopMessages, MaxBefore),
                before2 : SeqsUpTo(LoopMessages, MaxBefore),
                message : LoopMessages]
    /\ ret = None
    /\ fn = None

ProcessBatches ==
    /\ fn = None
    /\ Apply("process_emails",
             [first |-> DecisionsOf(Append(arg.before1, arg.message), Unbound),
              second |-> DecisionsOf(Append(arg.before2, arg.message), Unbound)])

LoopNext == ProcessBatches

LoopSpec == LoopInit /\ [][LoopNext]_vars

Flattened(payload) == [payload EXCEPT !.parts = LeavesOf(payload)]

\* C27: the body extractor walks all descendant leaves: a body leaf nested in
\* a multipart child of the root contributes to the body exactly as it would
\* as a top-level part, so a message and its flattened form have one body.
C27_NestedLeavesContribute ==
    /\ (fn = "extract_email_body" /\ arg.multipart) =>
           ret = extract_email_body(Flattened(arg))
    /\ (fn = "EmailParser._extract_email_body" /\ arg.multipart) =>
           ret = EmailParser_extract_email_body(Flattened(arg))

\* the message with the inline payload of every named leaf taken away
RECURSIVE WithoutNamedData(_)
WithoutNamedData(part) ==
    IF part.multipart
    THEN [part EXCEPT !.parts = [k \in DOMAIN part.parts |-> WithoutNamedData(part.parts[k])]]
    ELSE IF part.filename # <<>> THEN [part EXCEPT !.data = NoData]
    ELSE part

\* C28: a part with a non-empty filename never contributes to the extracted
\* body, even when it is text/plain or text/html with an inline payload: the
\* body is that of the message without the payloads of its named parts.
C28_NamedPartsAreNotBody ==
    /\ fn = "extract_email_body" => ret = extract_email_body(WithoutNamedData(arg))
    /\ fn = "EmailParser._extract_email_body" =>
           ret = EmailParser_extract_email_body(WithoutNamedData(arg))

\* ---------------------------------------------------------- attachment sizes
\* C29: for every attachment whose bytes were fetched, the recorded size is
\* the length of the fetched bytes, whether or not the upload that follows
\* succeeds; size 0 is recorded only when the fetch itself failed.
C29_SizeIsLengthOfFetchedBytes ==
    ExtractedAttachments =>
        \A k \in DOMAIN ret :
            ~FetchRaises(ret[k].attachment_id) =>
                ret[k].size = Len(FetchedBytes(ret[k].attachment_id))

\* ------------------------------------------------------ fetching the unread
\* get_unread_emails (process_emails.py lines 195-231) and
\* GmailProcessor.get_unread_emails (gmail_processor_refactored.py lines
\* 552-580) as a loop over the listed messages. arg is the listing, i the loop
\* index, bucket the object store, and ret holds the local email_data and
\* what the function has returned.
MaxListed == 3

\* payloads with no attachment, one attachment, and two of which the second
\* cannot be fetched
ListedPayloads ==
    LET root == Part("multipart/mixed", <<>>, NoData, "")
        pdf(a) == Part("application/pdf", <<"f">>, NoData, a)
    IN  {Multipart(root, <<>>),
         Multipart(root, <<pdf("a")>>),
         Multipart(root, <<pdf("a"), pdf("lost")>>)}

\* a listed message; one that is not well formed has no "payload" key
ListedMessages ==
    [payload : ListedPayloads, headers : {<<>>}, well_formed : BOOLEAN]

\* messages().get(...).execute() for the k-th listed message
FullMessage(listing, k) ==
    [id |-> k, payload |-> listing[k].payload, headers |-> listing[k].headers]

\* the objects the uploads of one parsed record have written
WrittenBy(record) ==
    LET outcomes == json_loads(record.attachment_summary)
    IN  {<<outcomes[k].gcs_url, FetchedBytes(outcomes[k].attachment_id)>> :
            k \in {n \in DOMAIN outcomes : outcomes[n].uploaded_successfully}}

\* Faulty variant: the handler returns the records collected so far.
OnError_ReturnsCollected(email_data) == email_data

\* process_emails.py lines 229-231: the handler returns the empty list
OnError(email_data) == <<>>

GetInit ==
    /\ BatchIdle
    /\ arg \in SeqsUpTo(ListedMessages, MaxListed)
    /\ ret = [email_data |-> <<>>, returned |-> FALSE, value |-> <<>>]
    /\ fn = None

\* lines 199-210: the listing call, which may raise
ListMessages ==
    /\ pc = "idle"
    /\ fn = None
    /\ \E name \in {"get_unread_emails", "GmailProcessor.get_unread_emails"} :
         fn' = name
    /\ \E ok \in BOOLEAN :
         IF ok
         THEN /\ pc' = "reading"
              /\ i' = 1
              /\ ret' = ret
         ELSE /\ pc' = "done"
              /\ i' = i
              /\ ret' = [ret EXCEPT !.returned = TRUE, !.value = OnError(ret.email_data)]
    /\ UNCHANGED <<arg, mailbox, unread, bucket, rows, healthy, healthyRun, warehouse,
                   emails, extracted_email, j, gcs_upload_status, gcs_url, services,
                   error, propagated, calls, handed>>

\* lines 212-225: fetch the full message and parse it, which uploads its
\* attachments; an exception of either step ends the function in the handler
FetchAndParse ==
    /\ pc = "reading"
    /\ i <= Len(arg)
    /\ \E fetched \in BOOLEAN, up \in UploadAnswers(FullMessage(arg, i)) :
         IF ~fetched \/ ~arg[i].well_formed
         THEN /\ pc' = "done"
              /\ ret' = [ret EXCEPT !.returned = TRUE, !.value = OnError(ret.email_data)]
              /\ UNCHANGED <<i, bucket>>
         ELSE LET msg == FullMessage(arg, i)
                  parsed_email == IF fn = "get_unread_emails"
                                  THEN parse_email(msg, up)
                                  ELSE EmailParser_parse_email(msg, up)
              IN  /\ bucket' = upload_from_string(bucket, WrittenBy(parsed_email))
                  /\ ret' = [ret EXCEPT !.email_data = Append(@, parsed_email)]
                  /\ i' = i + 1
                  /\ pc' = pc
    /\ UNCHANGED <<arg, fn, mailbox, unread, rows, healthy, healthyRun, warehouse,
                   emails, extracted_email, j, gcs_upload_status, gcs_url, services,
                   error, propagated, calls, handed>>

\* line 227: return email_data
ReturnEmailData ==
    /\ pc = "reading"
    /\ i > Len(arg)
    /\ pc' = "done"
    /\ ret' = [ret EXCEPT !.returned = TRUE, !.value = ret.email_data]
    /\ UNCHANGED <<arg, fn, i, mailbox, unread, bucket, rows, healthy, healthyRun,
                   warehouse, emails, extracted_email, j, gcs_upload_status, gcs_url,
                   services, error, propagated, calls, handed>>

GetNext == ListMessages \/ FetchAndParse \/ ReturnEmailData

GetSpec == GetInit /\ [][GetNext]_vars

\* C30: get_unread_emails returns either one parsed record for every listed
\* message, in listing order, or the empty list; when fetching or parsing a
\* message raises, the records parsed before it are not returned, while the
\* objects their uploads wrote stay in the object store.
C30_AllOrNothingResultOnly ==
    ret.returned =>
        /\ \/ ret.value = <<>>
           \/ /\ Len(ret.value) = Len(arg)
              /\ \A k \in DOMAIN ret.value : ret.value[k].message_id = k
        /\ Len(ret.email_data) < Len(arg) => ret.value = <<>>
        /\ \A k \in DOMAIN ret.email_data : WrittenBy(ret.email_data[k]) \subseteq bucket

\* the third message could not be fetched: nothing is returned, although two
\* records had been parsed and the attachment of the first is in the store
C30_Witness ==
    /\ ret.returned
    /\ ret.value = <<>>
    /\ i = 3
    /\ Len(ret.email_data) = 2
    /\ WrittenBy(ret.email_data[1]) # {}
    /\ WrittenBy(ret.email_data[1]) \subseteq bucket

====
